---------------------------- MODULE Spec2Model ----------------------------
(***************************************************************************)
(* A model of the sales knowledge graph: the schema (SalesOntology), the   *)
(* triple store and its loader (KnowledgeGraphBuilder), the catalogue of   *)
(* SPARQL queries (get_insights, get_reasoning_insights) and the two       *)
(* callers that build a store (EnhancedAnalyzer.load_knowledge_graph and   *)
(* build_knowledge_graph).                                                 *)
(*                                                                         *)
(* Strings are sequences of tokens: a token is a word (no blank, no        *)
(* underscore in it), the blank " " or the underscore "_".  So             *)
(* "North America" is <<"North", " ", "America">> and str.replace(" ","_") *)
(* is a function of the string, not the identity.                          *)
(*                                                                         *)
(* An RDF term is a 4-tuple <<kind, ns-or-datatype, string, number>>.      *)
(* A graph is the sequence of its distinct triples in insertion order      *)
(* (rdflib's memory store keeps insertion-ordered dictionaries).           *)
(***************************************************************************)
EXTENDS Integers, Sequences, FiniteSets, TLC

----------------------------------------------------------------------------
(* Strings *)

W(w) == <<w>>

NorthAmerica == <<"North", " ", "America">>
MobileDevices == <<"Mobile", " ", "Devices">>

\* str.replace(" ", "_")
ReplaceSpace(s) == [i \in DOMAIN s |-> IF s[i] = " " THEN "_" ELSE s[i]]

----------------------------------------------------------------------------
(* RDF terms *)

\* Namespace[...]: the namespace's prefix followed by the local name
Uri(ns, name) == <<"uri", ns, name, 0>>
SALES(name) == Uri("sales", name)
RDF(w) == Uri("rdf", W(w))
RDFS(w) == Uri("rdfs", W(w))
OWL(w) == Uri("owl", W(w))
XSD(w) == Uri("xsd", W(w))

\* Literal(value): a plain string literal
Lit(s) == <<"lit", "", s, 0>>
\* Literal(value, datatype=XSD.decimal | XSD.integer) of a number
NumLit(n, dt) == <<"lit", dt, <<>>, n>>
\* Literal(value, datatype=XSD.date)
DateLit(s) == <<"lit", "date", s, 0>>

IsLiteral(t) == t[1] = "lit"
IsNumeric(t) == t[1] = "lit" /\ t[2] \in {"decimal", "integer"}
NumVal(t) == t[4]
StrVal(t) == t[3]

RdfType == RDF("type")

----------------------------------------------------------------------------
(* The triple store: rdflib Graph.add, len(graph), iteration *)

Range(s) == {s[i] : i \in DOMAIN s}

\* Graph.add: a triple that is already in the graph is not added again
Add(g, t) == IF t \in Range(g) THEN g ELSE Append(g, t)

\* Graph.add called for each triple of ts in turn: what is appended is the
\* first occurrence of each triple of ts that g does not hold
AddAllDup(g, ts) == g \o ts
AddAll(g, ts) ==
  LET held == Range(g)
      numbered == [i \in DOMAIN ts |-> <<i, ts[i]>>]
      fresh == SelectSeq(numbered, LAMBDA n :
                 /\ n[2] \notin held
                 /\ \A j \in 1..(n[1] - 1) : ts[j] # n[2])
  IN  g \o [i \in DOMAIN fresh |-> fresh[i][2]]

\* len(graph)
Size(g) == Len(g)

RECURSIVE Concat(_)
Concat(ss) == IF ss = <<>> THEN <<>> ELSE Head(ss) \o Concat(Tail(ss))

----------------------------------------------------------------------------
(* SalesOntology *)

Classes == <<
  <<"Sale", "A sales transaction">>,
  <<"Customer", "A customer entity">>,
  <<"Product", "A product or service">>,
  <<"SalesRepresentative", "A sales team member">>,
  <<"Region", "Geographical region">>,
  <<"Category", "Product category">>,
  <<"Industry", "Customer industry sector">> >>

Subclasses == <<
  <<"EnterpriseCustomer", "Customer">>,
  <<"SMBCustomer", "Customer">>,
  <<"MidMarketCustomer", "Customer">>,
  <<"ElectronicsProduct", "Product">>,
  <<"FurnitureProduct", "Product">> >>

DefineClasses(g) ==
  AddAll(g,
    Concat([i \in DOMAIN Classes |->
      LET c == SALES(W(Classes[i][1])) IN
      << <<c, RdfType, OWL("Class")>>,
         <<c, RDFS("label"), Lit(W(Classes[i][1]))>>,
         <<c, RDFS("comment"), Lit(W(Classes[i][2]))>> >>])
    \o [i \in DOMAIN Subclasses |->
      <<SALES(W(Subclasses[i][1])), RDFS("subClassOf"), SALES(W(Subclasses[i][2]))>>])

ObjectProperties == <<
  <<"soldTo", "Sale", "Customer", "Links a sale to a customer">>,
  <<"soldBy", "Sale", "SalesRepresentative", "Links a sale to the sales rep">>,
  <<"productSold", "Sale", "Product", "Links a sale to the product">>,
  <<"locatedIn", "Customer", "Region", "Customer's geographical location">>,
  <<"operatesIn", "SalesRepresentative", "Region", "Region where sales rep operates">>,
  <<"belongsToCategory", "Product", "Category", "Product's category">>,
  <<"belongsToIndustry", "Customer", "Industry", "Customer's industry">>,
  <<"hasSubcategory", "Category", "Category", "Hierarchical category relationship">> >>

DataProperties == <<
  <<"saleId", "Sale", "string", "Unique sale identifier">>,
  <<"saleDate", "Sale", "date", "Date of sale">>,
  <<"quantity", "Sale", "integer", "Quantity sold">>,
  <<"grossRevenue", "Sale", "decimal", "Revenue before discount">>,
  <<"netRevenue", "Sale", "decimal", "Revenue after discount">>,
  <<"discountPercentage", "Sale", "decimal", "Discount applied">>,
  <<"status", "Sale", "string", "Sale status">>,
  <<"customerId", "Customer", "string", "Customer identifier">>,
  <<"customerName", "Customer", "string", "Customer name">>,
  <<"customerType", "Customer", "string", "Customer business size">>,
  <<"productId", "Product", "string", "Product identifier">>,
  <<"productName", "Product", "string", "Product name">>,
  <<"unitPrice", "Product", "decimal", "Product unit price">>,
  <<"repId", "SalesRepresentative", "string", "Sales rep identifier">>,
  <<"repName", "SalesRepresentative", "string", "Sales rep name">>,
  <<"experienceYears", "SalesRepresentative", "integer", "Years of experience">>,
  <<"regionName", "Region", "string", "Region name">>,
  <<"categoryName", "Category", "string", "Category name">>,
  <<"industryName", "Industry", "string", "Industry name">> >>

DefineProperties(g) ==
  AddAll(g,
    Concat([i \in DOMAIN ObjectProperties |->
      LET p == SALES(W(ObjectProperties[i][1])) IN
      << <<p, RdfType, OWL("ObjectProperty")>>,
         <<p, RDFS("domain"), SALES(W(ObjectProperties[i][2]))>>,
         <<p, RDFS("range"), SALES(W(ObjectProperties[i][3]))>>,
         <<p, RDFS("comment"), Lit(W(ObjectProperties[i][4]))>> >>])
    \o Concat([i \in DOMAIN DataProperties |->
      LET p == SALES(W(DataProperties[i][1])) IN
      << <<p, RdfType, OWL("DatatypeProperty")>>,
         <<p, RDFS("domain"), SALES(W(DataProperties[i][2]))>>,
         <<p, RDFS("range"), XSD(DataProperties[i][3])>>,
         <<p, RDFS("comment"), Lit(W(DataProperties[i][4]))>> >>]))

DefineAxioms(g) ==
  AddAll(g, <<
    <<SALES(W("soldTo")), OWL("inverseOf"), SALES(W("hasPurchase"))>>,
    <<SALES(W("soldBy")), OWL("inverseOf"), SALES(W("madeSale"))>>,
    <<SALES(W("saleDate")), RdfType, OWL("FunctionalProperty")>>,
    <<SALES(W("saleId")), RdfType, OWL("FunctionalProperty")>> >>)

ReasoningConcepts == <<
  <<"HighValueCustomer", "Customer with average deal size > $5000">>,
  <<"FrequentBuyer", "Customer with multiple purchases">>,
  <<"PremiumProduct", "Product with price > $400">>,
  <<"BudgetProduct", "Product with price < $100">>,
  <<"ExperiencedRep", "Sales rep with > 5 years experience">>,
  <<"SeasonalPattern", "Sales influenced by time period">>,
  <<"RegionalPreference", "Product-Region affinity pattern">>,
  <<"IndustryFit", "Product-Industry compatibility">>,
  <<"DiscountSensitive", "Customer segment responding to discounts">> >>

CausalProperties == <<
  <<"causedBy", "Indicates causal relationship">>,
  <<"influences", "Indicates influence factor">>,
  <<"correlatesWith", "Indicates correlation">>,
  <<"indicatesPreference", "Shows preference pattern">> >>

DefineReasoningRules(g) ==
  AddAll(g,
    Concat([i \in DOMAIN ReasoningConcepts |->
      LET c == SALES(W(ReasoningConcepts[i][1])) IN
      << <<c, RdfType, OWL("Class")>>,
         <<c, RDFS("comment"), Lit(W(ReasoningConcepts[i][2]))>> >>])
    \o Concat([i \in DOMAIN CausalProperties |->
      LET p == SALES(W(CausalProperties[i][1])) IN
      << <<p, RdfType, OWL("ObjectProperty")>>,
         <<p, RDFS("comment"), Lit(W(CausalProperties[i][2]))>> >>]))

\* SalesOntology.__init__: the schema graph
SalesOntology ==
  DefineReasoningRules(DefineAxioms(DefineProperties(DefineClasses(<<>>))))

\* str(s).split("#")[-1]: the local name of an identifier
LocalName(t) == t[3]

\* SalesOntology.get_ontology_summary; sorted(classes) and sorted(properties)
\* list each name of the set once, so the set stands for the list
GetOntologySummary(g) ==
  [classes |-> {LocalName(t[1]) : t \in {u \in Range(g) :
                   u[2] = RdfType /\ u[3] = OWL("Class")}},
   properties |-> {LocalName(t[1]) : t \in {u \in Range(g) :
                   u[2] = RdfType /\ u[3] \in {OWL("ObjectProperty"),
                                               OWL("DatatypeProperty")}}},
   total_triples |-> Size(g)]

----------------------------------------------------------------------------
(* KnowledgeGraphBuilder: construction and the loader *)

NewBuilderGraphEmpty(onto) == <<>>
\* KnowledgeGraphBuilder.__init__: a new graph, the ontology's triples copied
NewBuilderGraph(onto) == AddAll(<<>>, onto)

\* KnowledgeGraphBuilder(SalesOntology()), as both callers construct it
NewBuilder == NewBuilderGraph(SalesOntology)

RegionNames == <<NorthAmerica, W("Europe"), W("Asia")>>

AddRegions(g) ==
  AddAll(g,
    Concat([i \in DOMAIN RegionNames |->
      LET region_uri == SALES(ReplaceSpace(RegionNames[i])) IN
      << <<region_uri, RdfType, SALES(W("Region"))>>,
         <<region_uri, SALES(W("regionName")), Lit(RegionNames[i])>> >>]))

IndustryNames == <<W("Technology"), W("Consulting"), W("Creative"), W("Finance"),
                   W("Retail"), W("Manufacturing"), W("Healthcare"), W("Education")>>

AddIndustries(g) ==
  AddAll(g,
    Concat([i \in DOMAIN IndustryNames |->
      LET industry_uri == SALES(IndustryNames[i]) IN
      << <<industry_uri, RdfType, SALES(W("Industry"))>>,
         <<industry_uri, SALES(W("industryName")), Lit(IndustryNames[i])>> >>]))

CategoryNames == <<
  <<W("Electronics"), <<W("Computers"), W("Accessories"), W("Displays"), MobileDevices>> >>,
  <<W("Furniture"), <<W("Seating"), W("Desks"), W("Lighting"), W("Storage")>> >> >>

AddCategories(g) ==
  AddAll(g,
    Concat([i \in DOMAIN CategoryNames |->
      LET category == CategoryNames[i][1]
          subcategories == CategoryNames[i][2]
          cat_uri == SALES(category)
      IN  << <<cat_uri, RdfType, SALES(W("Category"))>>,
             <<cat_uri, SALES(W("categoryName")), Lit(category)>> >>
          \o Concat([j \in DOMAIN subcategories |->
               LET subcat_uri == SALES(ReplaceSpace(subcategories[j])) IN
               << <<subcat_uri, RdfType, SALES(W("Category"))>>,
                  <<subcat_uri, SALES(W("categoryName")), Lit(subcategories[j])>>,
                  <<subcat_uri, SALES(W("hasSubcategory")), cat_uri>> >>])]))

ProductTriples(product) ==
  LET prod_uri == SALES(product.id) IN
  << <<prod_uri, RdfType,
       IF product.category = W("Electronics")
         THEN SALES(W("ElectronicsProduct")) ELSE SALES(W("FurnitureProduct"))>>,
     <<prod_uri, SALES(W("productId")), Lit(product.id)>>,
     <<prod_uri, SALES(W("productName")), Lit(product.name)>>,
     <<prod_uri, SALES(W("unitPrice")), NumLit(product.price, "decimal")>>,
     <<prod_uri, SALES(W("belongsToCategory")), SALES(product.category)>>,
     <<prod_uri, SALES(W("belongsToCategory")), SALES(ReplaceSpace(product.subcategory))>> >>

AddProducts(g, products) ==
  AddAll(g, Concat([i \in DOMAIN products |-> ProductTriples(products[i])]))

CustomerTriplesNoRegion(customer) ==
  LET cust_uri == SALES(customer.id) IN
  << <<cust_uri, RdfType,
       IF customer.type = W("Enterprise") THEN SALES(W("EnterpriseCustomer"))
       ELSE IF customer.type = W("SMB") THEN SALES(W("SMBCustomer"))
       ELSE SALES(W("MidMarketCustomer"))>>,
     <<cust_uri, SALES(W("customerId")), Lit(customer.id)>>,
     <<cust_uri, SALES(W("customerName")), Lit(customer.name)>>,
     <<cust_uri, SALES(W("customerType")), Lit(customer.type)>>,
     <<cust_uri, SALES(W("belongsToIndustry")), SALES(customer.industry)>> >>
CustomerTriplesWithBase(customer) ==
  LET cust_uri == SALES(customer.id) IN
  << <<cust_uri, RdfType, SALES(W("Customer"))>>,
     <<cust_uri, RdfType,
       IF customer.type = W("Enterprise") THEN SALES(W("EnterpriseCustomer"))
       ELSE IF customer.type = W("SMB") THEN SALES(W("SMBCustomer"))
       ELSE SALES(W("MidMarketCustomer"))>>,
     <<cust_uri, SALES(W("customerId")), Lit(customer.id)>>,
     <<cust_uri, SALES(W("customerName")), Lit(customer.name)>>,
     <<cust_uri, SALES(W("customerType")), Lit(customer.type)>>,
     <<cust_uri, SALES(W("locatedIn")), SALES(ReplaceSpace(customer.region))>>,
     <<cust_uri, SALES(W("belongsToIndustry")), SALES(customer.industry)>> >>
CustomerTriplesHighValue(customer) ==
  LET cust_uri == SALES(customer.id) IN
  << <<cust_uri, RdfType,
       IF customer.type = W("Enterprise") THEN SALES(W("EnterpriseCustomer"))
       ELSE IF customer.type = W("SMB") THEN SALES(W("SMBCustomer"))
       ELSE SALES(W("MidMarketCustomer"))>>,
     <<cust_uri, SALES(W("customerId")), Lit(customer.id)>>,
     <<cust_uri, SALES(W("customerName")), Lit(customer.name)>>,
     <<cust_uri, SALES(W("customerType")), Lit(customer.type)>>,
     <<cust_uri, SALES(W("locatedIn")), SALES(ReplaceSpace(customer.region))>>,
     <<cust_uri, SALES(W("belongsToIndustry")), SALES(customer.industry)>> >>
  \o (IF customer.type = W("Enterprise")
        THEN << <<cust_uri, RdfType, SALES(W("HighValueCustomer"))>> >> ELSE <<>>)
CustomerTriplesNoFallback(customer) ==
  LET cust_uri == SALES(customer.id) IN
  (IF customer.type = W("Enterprise")
     THEN << <<cust_uri, RdfType, SALES(W("EnterpriseCustomer"))>> >>
   ELSE IF customer.type = W("SMB")
     THEN << <<cust_uri, RdfType, SALES(W("SMBCustomer"))>> >>
   ELSE IF customer.type = W("Mid-Market")
     THEN << <<cust_uri, RdfType, SALES(W("MidMarketCustomer"))>> >>
   ELSE <<>>)
  \o << <<cust_uri, SALES(W("customerId")), Lit(customer.id)>>,
        <<cust_uri, SALES(W("customerName")), Lit(customer.name)>>,
        <<cust_uri, SALES(W("customerType")), Lit(customer.type)>>,
        <<cust_uri, SALES(W("locatedIn")), SALES(ReplaceSpace(customer.region))>>,
        <<cust_uri, SALES(W("belongsToIndustry")), SALES(customer.industry)>> >>
CustomerTriples(customer) ==
  LET cust_uri == SALES(customer.id) IN
  << <<cust_uri, RdfType,
       IF customer.type = W("Enterprise") THEN SALES(W("EnterpriseCustomer"))
       ELSE IF customer.type = W("SMB") THEN SALES(W("SMBCustomer"))
       ELSE SALES(W("MidMarketCustomer"))>>,
     <<cust_uri, SALES(W("customerId")), Lit(customer.id)>>,
     <<cust_uri, SALES(W("customerName")), Lit(customer.name)>>,
     <<cust_uri, SALES(W("customerType")), Lit(customer.type)>>,
     <<cust_uri, SALES(W("locatedIn")), SALES(ReplaceSpace(customer.region))>>,
     <<cust_uri, SALES(W("belongsToIndustry")), SALES(customer.industry)>> >>

AddCustomers(g, customers) ==
  AddAll(g, Concat([i \in DOMAIN customers |-> CustomerTriples(customers[i])]))

RepTriplesLiteralSubject(rep) ==
  LET rep_uri == SALES(rep.id) IN
  << <<rep_uri, RdfType, SALES(W("SalesRepresentative"))>>,
     <<Lit(rep.id), SALES(W("repId")), rep_uri>>,
     <<rep_uri, SALES(W("repName")), Lit(rep.name)>>,
     <<rep_uri, SALES(W("experienceYears")), NumLit(rep.experience_years, "integer")>>,
     <<rep_uri, SALES(W("operatesIn")), SALES(ReplaceSpace(rep.region))>> >>
RepTriples(rep) ==
  LET rep_uri == SALES(rep.id) IN
  << <<rep_uri, RdfType, SALES(W("SalesRepresentative"))>>,
     <<rep_uri, SALES(W("repId")), Lit(rep.id)>>,
     <<rep_uri, SALES(W("repName")), Lit(rep.name)>>,
     <<rep_uri, SALES(W("experienceYears")), NumLit(rep.experience_years, "integer")>>,
     <<rep_uri, SALES(W("operatesIn")), SALES(ReplaceSpace(rep.region))>> >>

AddSalesReps(g, sales_reps) ==
  AddAll(g, Concat([i \in DOMAIN sales_reps |-> RepTriples(sales_reps[i])]))

SaleTriplesNoRep(row) ==
  LET sale_uri == SALES(row.sale_id) IN
  << <<sale_uri, RdfType, SALES(W("Sale"))>>,
     <<sale_uri, SALES(W("saleId")), Lit(row.sale_id)>>,
     <<sale_uri, SALES(W("saleDate")), DateLit(row.date)>>,
     <<sale_uri, SALES(W("quantity")), NumLit(row.quantity, "integer")>>,
     <<sale_uri, SALES(W("grossRevenue")), NumLit(row.gross_revenue, "decimal")>>,
     <<sale_uri, SALES(W("netRevenue")), NumLit(row.net_revenue, "decimal")>>,
     <<sale_uri, SALES(W("discountPercentage")), NumLit(row.discount_percentage, "decimal")>>,
     <<sale_uri, SALES(W("status")), Lit(row.status)>>,
     <<sale_uri, SALES(W("soldTo")), SALES(row.customer_id)>>,
     <<sale_uri, SALES(W("productSold")), SALES(row.product_id)>> >>
SaleTriples(row) ==
  LET sale_uri == SALES(row.sale_id) IN
  << <<sale_uri, RdfType, SALES(W("Sale"))>>,
     <<sale_uri, SALES(W("saleId")), Lit(row.sale_id)>>,
     <<sale_uri, SALES(W("saleDate")), DateLit(row.date)>>,
     <<sale_uri, SALES(W("quantity")), NumLit(row.quantity, "integer")>>,
     <<sale_uri, SALES(W("grossRevenue")), NumLit(row.gross_revenue, "decimal")>>,
     <<sale_uri, SALES(W("netRevenue")), NumLit(row.net_revenue, "decimal")>>,
     <<sale_uri, SALES(W("discountPercentage")), NumLit(row.discount_percentage, "decimal")>>,
     <<sale_uri, SALES(W("status")), Lit(row.status)>>,
     <<sale_uri, SALES(W("soldTo")), SALES(row.customer_id)>>,
     <<sale_uri, SALES(W("productSold")), SALES(row.product_id)>>,
     <<sale_uri, SALES(W("soldBy")), SALES(row.sales_rep_id)>> >>

AddSalesByPosition(g, df) ==
  AddAll(g, Concat([i \in DOMAIN df |->
    SaleTriples([df[i] EXCEPT
      !.sale_id = W(<<"S1", "S2", "S3", "S4", "S5", "S6", "S7", "S8", "S9", "S10">>[i])])]))
AddSales(g, df) ==
  AddAll(g, Concat([i \in DOMAIN df |-> SaleTriples(df[i])]))

----------------------------------------------------------------------------
(* query_sparql: the evaluation of a SPARQL SELECT over the graph.          *)
(* A triple pattern is a triple of terms and variables; a solution maps    *)
(* variable names to terms.  Solutions are enumerated by nested loops over *)
(* the patterns, each loop in the graph's order.                           *)

Var(v) == <<"var", v, <<>>, 0>>
IsVar(x) == x[1] = "var"

\* whether pattern slot x, under solution b, accepts term t
Accepts(x, b, t) ==
  IF IsVar(x) THEN (x[2] \in DOMAIN b => b[x[2]] = t) ELSE x = t

Matches(pat, b, tr) ==
  /\ Accepts(pat[2], b, tr[2])
  /\ Accepts(pat[3], b, tr[3])
  /\ Accepts(pat[1], b, tr[1])

\* the solution b extended by what pattern pat binds in triple tr
Bind(pat, b, tr) ==
  LET new == {i \in 1..3 : IsVar(pat[i]) /\ pat[i][2] \notin DOMAIN b}
      names == {pat[i][2] : i \in new}
  IN  [v \in DOMAIN b \cup names |->
        IF v \in DOMAIN b THEN b[v]
        ELSE tr[CHOOSE i \in new : pat[i][2] = v]]

\* one pattern joined to the solutions so far (inner join); the triples with
\* the pattern's predicate are looked up once
JoinPattern(g, sols, pat) ==
  LET cand == IF IsVar(pat[2]) THEN g ELSE SelectSeq(g, LAMBDA tr : tr[2] = pat[2])
  IN  Concat([k \in DOMAIN sols |->
        LET hits == SelectSeq(cand, LAMBDA tr : Matches(pat, sols[k], tr))
        IN  [h \in DOMAIN hits |-> Bind(pat, sols[k], hits[h])]])

EmptySolution == [v \in {} |-> <<>>]

RECURSIVE EvalFrom(_, _, _)
EvalFrom(g, sols, pats) ==
  IF pats = <<>> THEN sols
  ELSE EvalFrom(g, JoinPattern(g, sols, Head(pats)), Tail(pats))

\* the basic graph pattern of a WHERE clause
EvalBGP(g, pats) == EvalFrom(g, <<EmptySolution>>, pats)

\* GROUP BY: the distinct keys in order of first occurrence
RECURSIVE GroupKeys(_, _, _)
GroupKeys(sols, keyvars, seen) ==
  IF sols = <<>> THEN seen
  ELSE LET k == [i \in DOMAIN keyvars |-> Head(sols)[keyvars[i]]]
       IN  GroupKeys(Tail(sols), keyvars,
                     IF k \in Range(seen) THEN seen ELSE Append(seen, k))

GroupOf(sols, keyvars, k) ==
  SelectSeq(sols, LAMBDA b : [i \in DOMAIN keyvars |-> b[keyvars[i]]] = k)

\* the groups, each [key, rows], in order of first occurrence
GroupBy(sols, keyvars) ==
  LET keys == GroupKeys(sols, keyvars, <<>>)
  IN  [i \in DOMAIN keys |-> [key |-> keys[i], rows |-> GroupOf(sols, keyvars, keys[i])]]

\* SUM(?v) over a group
RECURSIVE Sum(_, _)
Sum(rows, v) ==
  IF rows = <<>> THEN 0 ELSE NumVal(Head(rows)[v]) + Sum(Tail(rows), v)

\* COUNT(?v) over a group
Count(rows, v) == Len(SelectSeq(rows, LAMBDA b : v \in DOMAIN b))

\* AVG(?v) over a group: the quotient sum / count, kept as the pair
Avg(rows, v) == [num |-> Sum(rows, v), den |-> Count(rows, v)]

\* a quotient greater than another
AvgGt(a, b) == a.num * b.den > b.num * a.den

\* ORDER BY DESC(?key): Python's sorted(..., reverse=True), which is stable.
\* Each row is placed before the first row already there with a smaller key.
RECURSIVE InsertDesc(_, _, _)
InsertDesc(sorted, r, key) ==
  IF sorted = <<>> THEN <<r>>
  ELSE IF r[key] > Head(sorted)[key] THEN <<r>> \o sorted
  ELSE <<Head(sorted)>> \o InsertDesc(Tail(sorted), r, key)

RECURSIVE SortDesc(_, _, _)
SortDesc(done, rest, key) ==
  IF rest = <<>> THEN done
  ELSE SortDesc(InsertDesc(done, Head(rest), key), Tail(rest), key)

Reverse(s) == [i \in DOMAIN s |-> s[Len(s) + 1 - i]]

RECURSIVE InsertAsc(_, _, _)
InsertAsc(sorted, r, key) ==
  IF sorted = <<>> THEN <<r>>
  ELSE IF r[key] < Head(sorted)[key] THEN <<r>> \o sorted
  ELSE <<Head(sorted)>> \o InsertAsc(Tail(sorted), r, key)

RECURSIVE SortAsc(_, _, _)
SortAsc(done, rest, key) ==
  IF rest = <<>> THEN done
  ELSE SortAsc(InsertAsc(done, Head(rest), key), Tail(rest), key)

OrderByAsc(rows, key) == SortAsc(<<>>, rows, key)
OrderByAscReversed(rows, key) == Reverse(SortAsc(<<>>, rows, key))
OrderByDesc(rows, key) == SortDesc(<<>>, rows, key)

\* LIMIT n
Limit(rows, n) == SubSeq(rows, 1, IF Len(rows) < n THEN Len(rows) ELSE n)

\* HAVING (COUNT(?sale) > n): applied to the aggregated groups
HavingAtLeast(rows, key, n) == SelectSeq(rows, LAMBDA r : r[key] >= n)
Having(rows, key, n) == SelectSeq(rows, LAMBDA r : r[key] > n)

----------------------------------------------------------------------------
(* get_insights *)

P(w) == SALES(W(w))
Completed == Lit(W("Completed"))

\* the join of the sales to the regions of their customers
SoldToLocatedIn == <<
  <<Var("s"), P("soldTo"), Var("c")>>,
  <<Var("c"), P("locatedIn"), Var("r")>> >>

JoinSoldToLocatedIn(g) ==
  LET sols == EvalBGP(g, SoldToLocatedIn)
  IN  {<<sols[i]["s"], sols[i]["r"]>> : i \in DOMAIN sols}

query_region == <<
  <<Var("sale"), RdfType, P("Sale")>>,
  <<Var("sale"), P("soldTo"), Var("customer")>>,
  <<Var("sale"), P("netRevenue"), Var("revenue")>>,
  <<Var("sale"), P("status"), Completed>>,
  <<Var("customer"), P("locatedIn"), Var("region")>>,
  <<Var("region"), P("regionName"), Var("regionName")>> >>

RevenueByRegion(g) ==
  LET groups == GroupBy(EvalBGP(g, query_region), <<"regionName">>)
      agg == [i \in DOMAIN groups |->
               [regionName |-> groups[i].key[1],
                totalRevenue |-> Sum(groups[i].rows, "revenue"),
                saleCount |-> Count(groups[i].rows, "sale")]]
      results == OrderByDesc(agg, "totalRevenue")
  IN  [i \in DOMAIN results |->
        [region |-> StrVal(results[i].regionName),
         revenue |-> results[i].totalRevenue,
         sales |-> results[i].saleCount]]

TopProductsLimit == 5

query_products == <<
  <<Var("sale"), RdfType, P("Sale")>>,
  <<Var("sale"), P("productSold"), Var("product")>>,
  <<Var("sale"), P("netRevenue"), Var("revenue")>>,
  <<Var("sale"), P("quantity"), Var("quantity")>>,
  <<Var("sale"), P("status"), Completed>>,
  <<Var("product"), P("productName"), Var("productName")>> >>

ProductTotals(g) ==
  LET groups == GroupBy(EvalBGP(g, query_products), <<"productName">>)
  IN  [i \in DOMAIN groups |->
        [productName |-> groups[i].key[1],
         totalRevenue |-> Sum(groups[i].rows, "revenue"),
         totalQuantity |-> Sum(groups[i].rows, "quantity")]]

TopProductsLimitFirst(g) ==
  LET results == OrderByDesc(Limit(ProductTotals(g), TopProductsLimit), "totalRevenue")
  IN  [i \in DOMAIN results |->
        [product |-> StrVal(results[i].productName),
         revenue |-> results[i].totalRevenue,
         units_sold |-> results[i].totalQuantity]]
TopProducts(g) ==
  LET results == Limit(OrderByDesc(ProductTotals(g), "totalRevenue"), TopProductsLimit)
  IN  [i \in DOMAIN results |->
        [product |-> StrVal(results[i].productName),
         revenue |-> results[i].totalRevenue,
         units_sold |-> results[i].totalQuantity]]

query_customer_type == <<
  <<Var("sale"), RdfType, P("Sale")>>,
  <<Var("sale"), P("soldTo"), Var("customer")>>,
  <<Var("sale"), P("netRevenue"), Var("revenue")>>,
  <<Var("sale"), P("status"), Completed>>,
  <<Var("customer"), P("customerType"), Var("customerType")>> >>

RevenueByCustomerType(g) ==
  LET groups == GroupBy(EvalBGP(g, query_customer_type), <<"customerType">>)
      agg == [i \in DOMAIN groups |->
               [customerType |-> groups[i].key[1],
                totalRevenue |-> Sum(groups[i].rows, "revenue"),
                avgRevenue |-> Avg(groups[i].rows, "revenue")]]
      results == OrderByDesc(agg, "totalRevenue")
  IN  [i \in DOMAIN results |->
        [customer_type |-> StrVal(results[i].customerType),
         total_revenue |-> results[i].totalRevenue,
         avg_revenue |-> results[i].avgRevenue]]

GetInsights(g) ==
  [revenue_by_region |-> RevenueByRegion(g),
   top_products |-> TopProducts(g),
   revenue_by_customer_type |-> RevenueByCustomerType(g)]

----------------------------------------------------------------------------
(* get_reasoning_insights *)

FitMinCount == 5
FitMaxRows == 10

query_product_customer_fit == <<
  <<Var("sale"), RdfType, P("Sale")>>,
  <<Var("sale"), P("soldTo"), Var("customer")>>,
  <<Var("sale"), P("productSold"), Var("product")>>,
  <<Var("sale"), P("netRevenue"), Var("revenue")>>,
  <<Var("sale"), P("status"), Completed>>,
  <<Var("customer"), P("customerType"), Var("customerType")>>,
  <<Var("product"), P("productName"), Var("productName")>>,
  <<Var("product"), P("belongsToCategory"), Var("cat")>>,
  <<Var("cat"), P("categoryName"), Var("category")>> >>

\* the groups of the affinity query, aggregated, before HAVING
ProductCustomerFitGroups(g) ==
  LET groups == GroupBy(EvalBGP(g, query_product_customer_fit),
                        <<"productName", "customerType", "category">>)
  IN  [i \in DOMAIN groups |->
        [productName |-> groups[i].key[1],
         customerType |-> groups[i].key[2],
         category |-> groups[i].key[3],
         salesCount |-> Count(groups[i].rows, "sale"),
         totalRevenue |-> Sum(groups[i].rows, "revenue"),
         avgDeal |-> Avg(groups[i].rows, "revenue")]]

ProductCustomerFit(g) ==
  LET results == OrderByDesc(Having(ProductCustomerFitGroups(g), "salesCount", FitMinCount),
                             "totalRevenue")
      shown == Limit(results, FitMaxRows)
  IN  [i \in DOMAIN shown |->
        [product |-> StrVal(shown[i].productName),
         customer_type |-> StrVal(shown[i].customerType),
         category |-> StrVal(shown[i].category),
         sales_count |-> shown[i].salesCount,
         revenue |-> shown[i].totalRevenue,
         avg_deal |-> shown[i].avgDeal]]

RegionalMinCount == 3
RegionalMaxRows == 10

query_regional_patterns == <<
  <<Var("sale"), RdfType, P("Sale")>>,
  <<Var("sale"), P("soldTo"), Var("customer")>>,
  <<Var("sale"), P("productSold"), Var("product")>>,
  <<Var("sale"), P("netRevenue"), Var("revenue")>>,
  <<Var("sale"), P("status"), Completed>>,
  <<Var("customer"), P("locatedIn"), Var("region")>>,
  <<Var("customer"), P("belongsToIndustry"), Var("ind")>>,
  <<Var("region"), P("regionName"), Var("regionName")>>,
  <<Var("ind"), P("industryName"), Var("industry")>>,
  <<Var("product"), P("productName"), Var("productName")>> >>

RegionalPatterns(g) ==
  LET groups == GroupBy(EvalBGP(g, query_regional_patterns),
                        <<"regionName", "industry", "productName">>)
      agg == [i \in DOMAIN groups |->
               [regionName |-> groups[i].key[1],
                industry |-> groups[i].key[2],
                productName |-> groups[i].key[3],
                salesCount |-> Count(groups[i].rows, "sale"),
                revenue |-> Sum(groups[i].rows, "revenue")]]
      results == OrderByDesc(Having(agg, "salesCount", RegionalMinCount), "revenue")
      shown == Limit(results, RegionalMaxRows)
  IN  [i \in DOMAIN shown |->
        [region |-> StrVal(shown[i].regionName),
         industry |-> StrVal(shown[i].industry),
         product |-> StrVal(shown[i].productName),
         sales_count |-> shown[i].salesCount,
         revenue |-> shown[i].revenue]]

query_rep_effectiveness == <<
  <<Var("sale"), RdfType, P("Sale")>>,
  <<Var("sale"), P("soldBy"), Var("rep")>>,
  <<Var("sale"), P("netRevenue"), Var("revenue")>>,
  <<Var("sale"), P("status"), Completed>>,
  <<Var("rep"), P("repName"), Var("repName")>>,
  <<Var("rep"), P("experienceYears"), Var("experience")>>,
  <<Var("rep"), P("operatesIn"), Var("region")>>,
  <<Var("region"), P("regionName"), Var("regionName")>> >>

\* ORDER BY DESC(?avgDeal): the stable descending sort, on quotients
RECURSIVE InsertDescAvg(_, _, _)
InsertDescAvg(sorted, r, key) ==
  IF sorted = <<>> THEN <<r>>
  ELSE IF AvgGt(r[key], Head(sorted)[key]) THEN <<r>> \o sorted
  ELSE <<Head(sorted)>> \o InsertDescAvg(Tail(sorted), r, key)

RECURSIVE SortDescAvg(_, _, _)
SortDescAvg(done, rest, key) ==
  IF rest = <<>> THEN done
  ELSE SortDescAvg(InsertDescAvg(done, Head(rest), key), Tail(rest), key)

OrderByDescAvg(rows, key) == SortDescAvg(<<>>, rows, key)

RepEffectiveness(g) ==
  LET groups == GroupBy(EvalBGP(g, query_rep_effectiveness),
                        <<"repName", "experience", "regionName">>)
      agg == [i \in DOMAIN groups |->
               [repName |-> groups[i].key[1],
                experience |-> groups[i].key[2],
                regionName |-> groups[i].key[3],
                salesCount |-> Count(groups[i].rows, "sale"),
                totalRevenue |-> Sum(groups[i].rows, "revenue"),
                avgDeal |-> Avg(groups[i].rows, "revenue")]]
      results == OrderByDescAvg(agg, "avgDeal")
  IN  [i \in DOMAIN results |->
        [rep |-> StrVal(results[i].repName),
         experience |-> NumVal(results[i].experience),
         region |-> StrVal(results[i].regionName),
         sales_count |-> results[i].salesCount,
         revenue |-> results[i].totalRevenue,
         avg_deal |-> results[i].avgDeal]]

query_discount_patterns == <<
  <<Var("sale"), RdfType, P("Sale")>>,
  <<Var("sale"), P("soldTo"), Var("customer")>>,
  <<Var("sale"), P("discountPercentage"), Var("discount")>>,
  <<Var("sale"), P("netRevenue"), Var("revenue")>>,
  <<Var("sale"), P("status"), Completed>>,
  <<Var("customer"), P("customerType"), Var("customerType")>> >>

\* FILTER(?discount > 0)
FilterDiscount(sols) == SelectSeq(sols, LAMBDA b : NumVal(b["discount"]) > 0)

DiscountPatterns(g) ==
  LET groups == GroupBy(FilterDiscount(EvalBGP(g, query_discount_patterns)),
                        <<"customerType">>)
  IN  [i \in DOMAIN groups |->
        [customer_type |-> StrVal(groups[i].key[1]),
         avg_discount |-> Avg(groups[i].rows, "discount"),
         avg_revenue |-> Avg(groups[i].rows, "revenue"),
         sales_count |-> Count(groups[i].rows, "sale")]]

GetReasoningInsights(g) ==
  [product_customer_fit |-> ProductCustomerFit(g),
   regional_patterns |-> RegionalPatterns(g),
   rep_effectiveness |-> RepEffectiveness(g),
   discount_patterns |-> DiscountPatterns(g)]

----------------------------------------------------------------------------
(* The records snapshots: data/metadata.json and data/sales_data.csv *)

MaxSales == 2
MaxLoads == 2

Product(id, name, category, subcategory, price) ==
  [id |-> W(id), name |-> W(name), category |-> category,
   subcategory |-> subcategory, price |-> price]

Customer(id, name, type, region, industry) ==
  [id |-> W(id), name |-> W(name), type |-> W(type), region |-> region,
   industry |-> W(industry)]

Rep(id, name, region, years) ==
  [id |-> W(id), name |-> W(name), region |-> region, experience_years |-> years]

SaleRow(sale_id, customer_id, product_id, sales_rep_id, quantity, net_revenue, status) ==
  [sale_id |-> W(sale_id), date |-> W("2024-01-01"),
   customer_id |-> W(customer_id), product_id |-> W(product_id),
   sales_rep_id |-> W(sales_rep_id), quantity |-> quantity,
   gross_revenue |-> net_revenue, discount_percentage |-> 0,
   net_revenue |-> net_revenue, status |-> W(status)]

SaleIds == <<"S1", "S2", "S3", "S4", "S5", "S6", "S7", "S8", "S9", "S10">>

NoBad == <<"none", 0>>

\* what a transaction row may be: customer, product, representative, quantity,
\* net revenue, status (C9, P9 and R9 are in no entity table)
SaleMenu == <<
  <<"C1", "P1", "R1", 1, 2, "Completed">>,
  <<"C2", "P2", "R1", 3, 2, "Completed">>,
  <<"C1", "P2", "R1", 1, 1, "Pending">>,
  <<"C9", "P9", "R9", 1, 1, "Completed">>,
  <<"C3", "P1", "R1", 2, 1, "Completed">> >>

MenuRow(sale_id, m) == SaleRow(sale_id, m[1], m[2], m[3], m[4], m[5], m[6])

\* the rows picked from the menu, numbered S1, S2, ...; with dup the last row
\* repeats the first row's sale_id
MenuSales(pick, dup) ==
  [i \in DOMAIN pick |->
    MenuRow(IF dup /\ i = Len(pick) /\ i > 1 THEN SaleIds[1] ELSE SaleIds[i],
            SaleMenu[pick[i]])]

\* C3's region differs from a region the loader declares by an underscore for
\* the blank
GeneralSnapshot(pick, dup, bad) ==
  [products |-> <<Product("P1", "Laptop", W("Electronics"), W("Computers"), 3),
                  Product("P2", "Chair", W("Furniture"), W("Seating"), 2)>>,
   customers |-> <<Customer("C1", "Acme", "Enterprise", NorthAmerica, "Technology"),
                   Customer("C2", "Beta", "SMB", W("Europe"), "Finance"),
                   Customer("C3", "Gamma", "SMB", <<"North", "_", "America">>, "Retail")>>,
   sales_reps |-> <<Rep("R1", "John", NorthAmerica, 5)>>,
   sales |-> MenuSales(pick, dup),
   bad |-> bad]

\* a malformed row (one without its id) is tried with the one-row tables
GeneralSnapshots ==
  UNION {
    {GeneralSnapshot(pick, dup, bad) :
       dup \in IF Len(pick) > 1 THEN BOOLEAN ELSE {FALSE},
       bad \in IF Len(pick) = 1 THEN {NoBad, <<"customers", 2>>, <<"sales", 1>>}
               ELSE {NoBad}} :
    pick \in UNION {[1..k -> DOMAIN SaleMenu] : k \in 0..MaxSales}}

\* The end-to-end scenario: Acme (Enterprise, NA) and Beta (SMB, EU), Widget
\* priced 100, three completed sales of 2, 3 and 1 units, net revenue = price
\* x quantity.  The order of the rows, Widget's category, the representative's
\* region and a malformed last row are left open.
E2ERows == <<
  <<"Acme", 2>>,
  <<"Acme", 3>>,
  <<"Beta", 1>> >>

Orders(n) == {f \in [1..n -> 1..n] : \A i, j \in 1..n : f[i] = f[j] => i = j}

E2ESnapshot(order, cat, rep_region, bad) ==
  [products |-> <<Product("Widget", "Widget", cat[1], cat[2], 100)>>,
   customers |-> <<Customer("Acme", "Acme", "Enterprise", W("NA"), "Technology"),
                   Customer("Beta", "Beta", "SMB", W("EU"), "Finance")>>,
   sales_reps |-> <<Rep("R1", "John", rep_region, 5)>>,
   sales |-> [i \in DOMAIN E2ERows |->
               SaleRow(SaleIds[i], E2ERows[order[i]][1], "Widget", "R1",
                       E2ERows[order[i]][2], 100 * E2ERows[order[i]][2],
                       "Completed")],
   bad |-> bad]

E2ESnapshots ==
  {E2ESnapshot(order, cat, rep_region, bad) :
     order \in Orders(Len(E2ERows)),
     cat \in {<<W("Electronics"), W("Computers")>>, <<W("Furniture"), W("Seating")>>},
     rep_region \in {NorthAmerica, W("Europe")},
     bad \in {NoBad, <<"sales", 3>>}}

\* Support counts around the affinity query's threshold: n completed sales of
\* one product to Enterprise customers, each of low revenue, with or without a
\* pending sale and a sale to an SMB customer after them.
MaxFitSales == 6

FitSnapshot(n, rev, pending, other, bad) ==
  [products |-> <<Product("P1", "Laptop", W("Electronics"), W("Computers"), 3)>>,
   customers |-> <<Customer("C1", "Acme", "Enterprise", NorthAmerica, "Technology"),
                   Customer("C2", "Beta", "SMB", W("Europe"), "Finance")>>,
   sales_reps |-> <<Rep("R1", "John", NorthAmerica, 5)>>,
   sales |-> [i \in 1..n |-> SaleRow(SaleIds[i], "C1", "P1", "R1", 1, rev, "Completed")]
             \o (IF pending THEN <<SaleRow(SaleIds[n + 1], "C1", "P1", "R1", 1, rev, "Pending")>>
                 ELSE <<>>)
             \o (IF other THEN <<SaleRow(SaleIds[n + 2], "C2", "P1", "R1", 1, rev, "Completed")>>
                 ELSE <<>>),
   bad |-> bad]

FitSnapshots ==
  {FitSnapshot(n, rev, pending, other, bad) :
     n \in 4..MaxFitSales, rev \in {1, 2}, pending \in BOOLEAN, other \in BOOLEAN,
     bad \in {NoBad, <<"sales", 2>>}}

\* More products than the top-products query keeps: k products, one completed
\* sale each, of revenue 1 or 2.
MaxTopProducts == 6

ProductIds == <<"P1", "P2", "P3", "P4", "P5", "P6", "P7", "P8">>
ProductNames == <<"N1", "N2", "N3", "N4", "N5", "N6", "N7", "N8">>

TopSnapshot(revs, bad) ==
  [products |-> [i \in DOMAIN revs |->
                  Product(ProductIds[i], ProductNames[i], W("Electronics"), W("Computers"), 3)],
   customers |-> <<Customer("C1", "Acme", "Enterprise", NorthAmerica, "Technology")>>,
   sales_reps |-> <<Rep("R1", "John", NorthAmerica, 5)>>,
   sales |-> [i \in DOMAIN revs |->
               SaleRow(SaleIds[i], "C1", ProductIds[i], "R1", 3 - revs[i], revs[i], "Completed")],
   bad |-> bad]

TopSnapshots ==
  {TopSnapshot(revs, NoBad) : revs \in UNION {[1..k -> {1, 2}] : k \in 5..MaxTopProducts}}
  \cup {TopSnapshot([i \in 1..5 |-> 1], <<"products", 3>>)}

\* Customer tables whose ids collide: a customer row may repeat the id of
\* another customer row with another type, of a product, or of a region; its
\* type may be none of the three the loader names.  The second product's
\* category is none of the loader's.
MaxCustomers == 2

CustomerMenu == <<
  Customer("C1", "Acme", "Enterprise", NorthAmerica, "Technology"),
  Customer("C2", "Beta", "SMB", W("Europe"), "Finance"),
  Customer("C5", "Mid", "Mid-Market", W("Asia"), "Retail"),
  Customer("C1", "Acme", "SMB", NorthAmerica, "Technology"),
  Customer("P1", "Prod", "Enterprise", W("Europe"), "Finance"),
  Customer("Europe", "Euro", "SMB", W("Europe"), "Retail"),
  Customer("C6", "New", "Startup", W("Asia"), "Technology") >>

IdSnapshot(pick, bad) ==
  [products |-> <<Product("P1", "Laptop", W("Electronics"), W("Computers"), 3),
                  Product("P7", "Suite", W("Software"), W("Apps"), 2)>>,
   customers |-> [i \in DOMAIN pick |-> CustomerMenu[pick[i]]],
   sales_reps |-> <<Rep("R1", "John", NorthAmerica, 5)>>,
   sales |-> <<[SaleRow("S1", "C1", "P1", "R1", 1, 1, "Completed")
                 EXCEPT !.customer_id = CustomerMenu[pick[1]].id]>>,
   bad |-> bad]

IdSnapshots ==
  UNION {
    {IdSnapshot(pick, bad) :
       bad \in IF Len(pick) = 1 THEN {NoBad, <<"customers", 1>>, <<"sales", 1>>}
               ELSE {NoBad}} :
    pick \in UNION {[1..k -> DOMAIN CustomerMenu] : k \in 1..MaxCustomers}}

----------------------------------------------------------------------------
(* State *)

VARIABLES
  records,    \* the files the loader reads
  ontology,   \* SalesOntology.graph
  graph,      \* KnowledgeGraphBuilder.graph of the builder in use
  kg,         \* the builder the caller holds: "None" or "kg"
  entry,      \* who builds the store: "analyzer" or "build"
  pc,         \* "start", "loading", "raised", "populated", "loaded", "failed"
  step,       \* how many of load_sales_data's seven steps have run
  loads,      \* how many times load_sales_data was called on this builder
  insights,   \* what get_insights returned last
  reasoning,  \* what get_reasoning_insights returned last
  result,     \* what query_sparql returned last for the sale-region join
  reader,     \* a second thread in get_semantic_context: "idle" or "reading"
  summary     \* what get_ontology_summary returned last

vars == <<records, ontology, graph, kg, entry, pc, step, loads, insights, reasoning,
          result, reader, summary>>

NoInsights ==
  [valid |-> FALSE, revenue_by_region |-> <<>>, top_products |-> <<>>,
   revenue_by_customer_type |-> <<>>]

NoReasoning ==
  [valid |-> FALSE, product_customer_fit |-> <<>>, regional_patterns |-> <<>>,
   rep_effectiveness |-> <<>>, discount_patterns |-> <<>>]

NoResult == [valid |-> FALSE, pairs |-> {}]

NoSummary == [valid |-> FALSE, classes |-> {}, properties |-> {}, total_triples |-> 0]

InitWith(snapshots) ==
  /\ records \in snapshots
  /\ ontology = <<>>
  /\ graph = <<>>
  /\ kg = "None"
  /\ entry = "analyzer"
  /\ pc = "start"
  /\ step = 0
  /\ loads = 0
  /\ insights = NoInsights
  /\ reasoning = NoReasoning
  /\ result = NoResult
  /\ reader = "idle"
  /\ summary = NoSummary

Init == InitWith(GeneralSnapshots)

InitE2E == InitWith(E2ESnapshots)

InitFit == InitWith(FitSnapshots)

InitTop == InitWith(TopSnapshots)

InitIds == InitWith(IdSnapshots)

\* the rows of a table that are read before a malformed row raises
Readable(table, rows) ==
  IF records.bad[1] = table /\ records.bad[2] <= Len(rows)
    THEN SubSeq(rows, 1, records.bad[2] - 1) ELSE rows

Raises(table, rows) == records.bad[1] = table /\ records.bad[2] <= Len(rows)

----------------------------------------------------------------------------
(* Actions *)

\* EnhancedAnalyzer.load_knowledge_graph, up to the call of load_sales_data:
\* the new builder is assigned to self.kg before it is loaded
LoadKnowledgeGraph ==
  /\ pc \in {"start", "loaded", "failed"}
  /\ pc # "start" => entry = "analyzer"
  /\ reader = "idle"
  /\ entry' = "analyzer"
  /\ ontology' = SalesOntology
  /\ graph' = NewBuilder
  /\ kg' = "kg"
  /\ pc' = "loading"
  /\ step' = 0
  /\ loads' = 1
  /\ insights' = NoInsights
  /\ reasoning' = NoReasoning
  /\ result' = NoResult
  /\ UNCHANGED <<records, reader, summary>>

\* build_knowledge_graph, up to the call of load_sales_data: kg is a local
BuildKnowledgeGraph ==
  /\ pc = "start"
  /\ entry' = "build"
  /\ ontology' = SalesOntology
  /\ graph' = NewBuilder
  /\ kg' = "None"
  /\ pc' = "loading"
  /\ step' = 0
  /\ loads' = 1
  /\ UNCHANGED <<records, reader, summary, insights, reasoning, result>>

LoadAgainAfterClear ==
  /\ pc = "loaded"
  /\ entry = "analyzer"
  /\ kg = "kg"
  /\ reader = "idle"
  /\ loads < MaxLoads
  /\ graph' = NewBuilder
  /\ pc' = "loading"
  /\ step' = 0
  /\ loads' = loads + 1
  /\ insights' = NoInsights
  /\ reasoning' = NoReasoning
  /\ result' = NoResult
  /\ UNCHANGED <<records, reader, summary, ontology, kg, entry>>

\* load_sales_data is called again on the analyzer's loaded builder
LoadAgain ==
  /\ pc = "loaded"
  /\ entry = "analyzer"
  /\ kg = "kg"
  /\ reader = "idle"
  /\ loads < MaxLoads
  /\ pc' = "loading"
  /\ step' = 0
  /\ loads' = loads + 1
  /\ insights' = NoInsights
  /\ reasoning' = NoReasoning
  /\ result' = NoResult
  /\ UNCHANGED <<records, reader, summary, ontology, graph, kg, entry>>

FixedStepShared(n, g) ==
  /\ pc = "loading"
  /\ step = n
  /\ graph' = g
  /\ ontology' = g
  /\ step' = n + 1
  /\ UNCHANGED <<records, reader, summary, kg, entry, pc, loads, insights,
                 reasoning, result>>
\* one step of load_sales_data that reads no table
FixedStep(n, g) ==
  /\ pc = "loading"
  /\ step = n
  /\ graph' = g
  /\ step' = n + 1
  /\ UNCHANGED <<records, reader, summary, ontology, kg, entry, pc, loads, insights,
                 reasoning, result>>

\* one step of load_sales_data that reads a table: a malformed row raises
TableStep(n, g, raises, last) ==
  /\ pc = "loading"
  /\ step = n
  /\ graph' = g
  /\ step' = n + 1
  /\ pc' = IF raises THEN "raised"
           ELSE IF ~last THEN "loading"
           ELSE IF entry = "build" /\ loads = 1 THEN "populated"
           ELSE "loaded"
  /\ UNCHANGED <<records, reader, summary, ontology, kg, entry, loads, insights, reasoning,
                 result>>

LoadRegions == FixedStep(0, AddRegions(graph))

LoadIndustries == FixedStep(1, AddIndustries(graph))

LoadCategories == FixedStep(2, AddCategories(graph))

LoadProducts ==
  TableStep(3, AddProducts(graph, Readable("products", records.products)),
            Raises("products", records.products), FALSE)

LoadCustomers ==
  TableStep(4, AddCustomers(graph, Readable("customers", records.customers)),
            Raises("customers", records.customers), FALSE)

LoadSalesReps ==
  TableStep(5, AddSalesReps(graph, Readable("sales_reps", records.sales_reps)),
            Raises("sales_reps", records.sales_reps), FALSE)

LoadSales ==
  TableStep(6, AddSales(graph, Readable("sales", records.sales)),
            Raises("sales", records.sales), TRUE)

\* EnhancedAnalyzer.load_knowledge_graph's except clause
HandleErrorKeepsBuilder ==
  /\ pc = "raised"
  /\ entry = "analyzer"
  /\ pc' = "failed"
  /\ UNCHANGED <<records, reader, summary, ontology, graph, kg, entry, step, loads, insights, reasoning,
                 result>>
HandleError ==
  /\ pc = "raised"
  /\ entry = "analyzer"
  /\ kg' = "None"
  /\ pc' = "failed"
  /\ UNCHANGED <<records, reader, summary, ontology, graph, entry, step, loads, insights,
                 reasoning, result>>

\* the exception leaves build_knowledge_graph: its local kg is never returned
Propagate ==
  /\ pc = "raised"
  /\ entry = "build"
  /\ pc' = "failed"
  /\ UNCHANGED <<records, reader, summary, ontology, graph, kg, entry, step, loads, insights,
                 reasoning, result>>

\* build_knowledge_graph after the load: save, get_insights, return kg
BuildReturn ==
  /\ pc = "populated"
  /\ insights' = [valid |-> TRUE] @@ GetInsights(graph)
  /\ kg' = "kg"
  /\ pc' = "loaded"
  /\ UNCHANGED <<records, reader, summary, ontology, graph, entry, step, loads, reasoning,
                 result>>

\* EnhancedAnalyzer.get_semantic_context: get_insights, then
\* get_reasoning_insights, on self.kg
GetSemanticContext ==
  /\ pc = "loaded"
  /\ entry = "analyzer"
  /\ kg = "kg"
  /\ reader = "idle"
  /\ insights' = [valid |-> TRUE] @@ GetInsights(graph)
  /\ reasoning' = [valid |-> TRUE] @@ GetReasoningInsights(graph)
  /\ UNCHANGED <<records, reader, summary, ontology, graph, kg, entry, pc, step, loads, result>>

QuerySparqlMaterializes ==
  /\ pc = "loaded"
  /\ kg = "kg"
  /\ reader = "idle"
  /\ result' = [valid |-> TRUE, pairs |-> JoinSoldToLocatedIn(graph)]
  /\ graph' = AddAll(graph, << <<P("lastQuery"), RdfType, P("Query")>> >>)
  /\ UNCHANGED <<records, reader, summary, ontology, kg, entry, pc, step, loads, insights,
                 reasoning>>

\* query_sparql with the two-pattern join, on the builder the caller holds
QuerySparql ==
  /\ pc = "loaded"
  /\ kg = "kg"
  /\ reader = "idle"
  /\ result' = [valid |-> TRUE, pairs |-> JoinSoldToLocatedIn(graph)]
  /\ UNCHANGED <<records, reader, summary, ontology, graph, kg, entry, pc, step, loads, insights,
                 reasoning>>

\* get_semantic_context in a second thread, while load_knowledge_graph is
\* between its assignment of self.kg and its return: self.kg is not None, so
\* the thread goes on to query the builder it refers to
ConcurrentGetSemanticContext ==
  /\ entry = "analyzer"
  /\ loads = 1
  /\ pc \in {"loading", "raised"}
  /\ kg = "kg"
  /\ reader = "idle"
  /\ reader' = "reading"
  /\ UNCHANGED <<records, summary, ontology, graph, kg, entry, pc, step, loads, insights,
                 reasoning, result>>

\* the second thread's get_semantic_context returns
ConcurrentReturn ==
  /\ reader = "reading"
  /\ reader' = "idle"
  /\ UNCHANGED <<records, summary, ontology, graph, kg, entry, pc, step, loads, insights,
                 reasoning, result>>

\* create_ontology, up to its summary: SalesOntology() and its save
CreateOntology ==
  /\ pc = "start"
  /\ ontology = <<>>
  /\ ontology' = SalesOntology
  /\ UNCHANGED <<records, reader, summary, graph, kg, entry, pc, step, loads, insights,
                 reasoning, result>>

\* get_ontology_summary, on the ontology create_ontology made or on the one
\* the builder holds (self.ontology)
OntologySummary ==
  /\ ontology # <<>>
  /\ ~summary.valid
  /\ summary' = [valid |-> TRUE] @@ GetOntologySummary(ontology)
  /\ UNCHANGED <<records, reader, ontology, graph, kg, entry, pc, step, loads, insights,
                 reasoning, result>>

Next ==
  \/ LoadKnowledgeGraph
  \/ BuildKnowledgeGraph
  \/ LoadAgain
  \/ LoadRegions
  \/ LoadIndustries
  \/ LoadCategories
  \/ LoadProducts
  \/ LoadCustomers
  \/ LoadSalesReps
  \/ LoadSales
  \/ HandleError
  \/ Propagate
  \/ BuildReturn
  \/ GetSemanticContext
  \/ QuerySparql
  \/ ConcurrentGetSemanticContext
  \/ ConcurrentReturn

\* setup_demo: create_ontology, then build_knowledge_graph; the application
\* afterwards
NextSetup ==
  \/ CreateOntology
  \/ OntologySummary
  \/ Next

Spec == Init /\ [][Next]_vars

SpecE2E == InitE2E /\ [][Next]_vars

SpecFit == InitFit /\ [][Next]_vars

SpecTop == InitTop /\ [][Next]_vars

SpecIds == InitIds /\ [][Next]_vars

SpecSetup == InitE2E /\ [][NextSetup]_vars


----------------------------------------------------------------------------
(* The records, read directly: what the properties below compare with *)

\* the store after one complete load of the snapshot
CompleteLoad ==
  AddSales(AddSalesReps(AddCustomers(AddProducts(
    AddCategories(AddIndustries(AddRegions(NewBuilder))),
    records.products), records.customers), records.sales_reps), records.sales)

\* the transaction rows with status Completed, in table order
CompletedSales == SelectSeq(records.sales, LAMBDA r : r.status = W("Completed"))

\* the arithmetic sum of a column over some rows of the table
RECURSIVE ColumnSum(_, _)
ColumnSum(rows, column) ==
  IF rows = <<>> THEN 0 ELSE Head(rows)[column] + ColumnSum(Tail(rows), column)

\* the completed rows of the customers located in a region
SalesOfRegion(name) ==
  SelectSeq(CompletedSales, LAMBDA r :
    \E c \in Range(records.customers) : c.id = r.customer_id /\ c.region = name)

\* the completed rows of the products of a name
SalesOfProduct(name) ==
  SelectSeq(CompletedSales, LAMBDA r :
    \E p \in Range(records.products) : p.id = r.product_id /\ p.name = name)

\* the completed rows of the customers of a type
SalesOfCustomerType(type) ==
  SelectSeq(CompletedSales, LAMBDA r :
    \E c \in Range(records.customers) : c.id = r.customer_id /\ c.type = type)

\* the completed rows of the products of a name sold to customers of a type
SalesOfProductToType(name, type) ==
  SelectSeq(SalesOfProduct(name), LAMBDA r :
    \E c \in Range(records.customers) : c.id = r.customer_id /\ c.type = type)

\* a transaction row that names no row of some entity table
Dangling(row) ==
  \/ \A c \in Range(records.customers) : c.id # row.customer_id
  \/ \A p \in Range(records.products) : p.id # row.product_id
  \/ \A r \in Range(records.sales_reps) : r.id # row.sales_rep_id

\* where the first solution of a group is in the enumeration of the solutions
FirstSolution(sols, var, name) ==
  CHOOSE i \in DOMAIN sols :
    /\ StrVal(sols[i][var]) = name
    /\ \A j \in 1..(i - 1) : StrVal(sols[j][var]) # name

----------------------------------------------------------------------------
(* Properties *)

\* C1: when some transaction row names a customer, product or representative
\* that is in no entity table, the load ends in an error once _add_sales has
\* run, and none of that row's edges to the unknown identifier is in the store.
C1_DanglingRejected ==
  (step = 7 /\ \E i \in DOMAIN records.sales : Dangling(records.sales[i]))
    => /\ pc \in {"raised", "failed"}
       /\ \A i \in DOMAIN records.sales :
            LET row == records.sales[i] IN
            /\ (\A c \in Range(records.customers) : c.id # row.customer_id)
                 => <<SALES(row.sale_id), P("soldTo"), SALES(row.customer_id)>>
                      \notin Range(graph)
            /\ (\A p \in Range(records.products) : p.id # row.product_id)
                 => <<SALES(row.sale_id), P("productSold"), SALES(row.product_id)>>
                      \notin Range(graph)
            /\ (\A r \in Range(records.sales_reps) : r.id # row.sales_rep_id)
                 => <<SALES(row.sale_id), P("soldBy"), SALES(row.sales_rep_id)>>
                      \notin Range(graph)

\* C2: between calls (before a load, after a load has returned or failed) the
\* caller either holds no builder, or holds one whose store has exactly the
\* triples of a complete load of the snapshot.
C2_NoPartialStore ==
  pc \in {"start", "loaded", "failed"}
    => \/ kg = "None"
       \/ Range(graph) = Range(CompleteLoad)

\* a load by the analyzer has failed after triples were inserted
C2_Witness ==
  /\ pc = "failed"
  /\ entry = "analyzer"
  /\ step >= 4
  /\ Len(graph) > Len(ontology)
  /\ Range(graph) # Range(CompleteLoad)

\* C5: the join (?s soldTo ?c), (?c locatedIn ?r) over the loaded store returns
\* exactly the pairs of a sale's identifier and the identifier of the region
\* that the entity row of the customer named by the sale's row gives.
C5_JoinCorrect ==
  result.valid
    => result.pairs =
         {<<SALES(x[1].sale_id), SALES(ReplaceSpace(x[2].region))>> :
            x \in {y \in Range(records.sales) \X Range(records.customers) :
                     y[1].customer_id = y[2].id}}

\* the join has returned a pair, and left out a sale whose customer is unknown
C5_Witness ==
  /\ result.valid
  /\ result.pairs # {}
  /\ \E i \in DOMAIN records.sales :
       \A c \in Range(records.customers) : c.id # records.sales[i].customer_id

\* C6: in each entry of get_insights, the sum of every returned group is the
\* sum of the net revenue (or quantity) of the completed table rows of that
\* group, and its count (the divisor of its average) is the number of those rows.
C6_AggregationCorrect ==
  insights.valid
    => /\ \A i \in DOMAIN insights.revenue_by_region :
            LET g == insights.revenue_by_region[i]
                rows == SalesOfRegion(g.region)
            IN  /\ g.revenue = ColumnSum(rows, "net_revenue")
                /\ g.sales = Len(rows)
       /\ \A i \in DOMAIN insights.top_products :
            LET g == insights.top_products[i]
                rows == SalesOfProduct(g.product)
            IN  /\ g.revenue = ColumnSum(rows, "net_revenue")
                /\ g.units_sold = ColumnSum(rows, "quantity")
       /\ \A i \in DOMAIN insights.revenue_by_customer_type :
            LET g == insights.revenue_by_customer_type[i]
                rows == SalesOfCustomerType(g.customer_type)
            IN  /\ g.total_revenue = ColumnSum(rows, "net_revenue")
                /\ g.avg_revenue.num = ColumnSum(rows, "net_revenue")
                /\ g.avg_revenue.den = Len(rows)

\* C9: in every ordered entry of get_insights, two rows with equal totals are
\* in the order in which the first solutions of their groups were enumerated.
C9_StableTies ==
  insights.valid
    => /\ \A i, j \in DOMAIN insights.revenue_by_region :
            LET rows == insights.revenue_by_region
                sols == EvalBGP(graph, query_region)
            IN  (i < j /\ rows[i].revenue = rows[j].revenue)
                  => FirstSolution(sols, "regionName", rows[i].region)
                       < FirstSolution(sols, "regionName", rows[j].region)
       /\ \A i, j \in DOMAIN insights.top_products :
            LET rows == insights.top_products
                sols == EvalBGP(graph, query_products)
            IN  (i < j /\ rows[i].revenue = rows[j].revenue)
                  => FirstSolution(sols, "productName", rows[i].product)
                       < FirstSolution(sols, "productName", rows[j].product)
       /\ \A i, j \in DOMAIN insights.revenue_by_customer_type :
            LET rows == insights.revenue_by_customer_type
                sols == EvalBGP(graph, query_customer_type)
            IN  (i < j /\ rows[i].total_revenue = rows[j].total_revenue)
                  => FirstSolution(sols, "customerType", rows[i].customer_type)
                       < FirstSolution(sols, "customerType", rows[j].customer_type)

\* two regions and two products have returned equal totals
C9_Witness ==
  /\ insights.valid
  /\ Len(insights.revenue_by_region) = 2
  /\ insights.revenue_by_region[1].revenue = insights.revenue_by_region[2].revenue
  /\ Len(insights.top_products) = 2
  /\ insights.top_products[1].revenue = insights.top_products[2].revenue

\* C10: the store holds no triple twice, inserting the triples it holds leaves
\* it as it is, and a second load of the same snapshot, which inserts every
\* triple again, leaves the store of the first load.
C10_IdempotentInsertion ==
  /\ Cardinality(Range(graph)) = Size(graph)
  /\ AddAll(graph, graph) = graph
  /\ loads >= 2 => graph = CompleteLoad

\* a second load has inserted the triples of the transactions again
C10_Witness ==
  /\ loads = 2
  /\ pc = "loaded"
  /\ step = 7
  /\ records.sales # <<>>
  /\ Size(graph) > Size(ontology)

\* C3: in the end-to-end scenario, the revenue_by_region entry that
\* get_insights returns after the load has exactly the rows NA: 500, EU: 100.
C3_RevenueByRegionE2E ==
  insights.valid
    => [i \in DOMAIN insights.revenue_by_region |->
          <<insights.revenue_by_region[i].region,
            insights.revenue_by_region[i].revenue>>]
         = << <<W("NA"), 500>>, <<W("EU"), 100>> >>

\* C4: in the end-to-end scenario, the revenue_by_customer_type entry that
\* get_insights returns after the load has exactly the rows Enterprise: 500 and
\* SMB: 100, in that order.
C4_RevenueByCustomerTypeE2E ==
  insights.valid
    => [i \in DOMAIN insights.revenue_by_customer_type |->
          <<insights.revenue_by_customer_type[i].customer_type,
            insights.revenue_by_customer_type[i].total_revenue>>]
         = << <<W("Enterprise"), 500>>, <<W("SMB"), 100>> >>

\* get_insights has returned after a load in which Beta's sale is the first row
C4_Witness ==
  /\ insights.valid
  /\ pc = "loaded"
  /\ records.sales[1].customer_id = W("Beta")
  /\ Len(insights.revenue_by_customer_type) = 2

\* C7: a (product, customer type, category) group is in product_customer_fit
\* exactly when more than 5 completed sales of the table belong to it, whatever
\* their revenue, and a reported group counts and sums all of them.
C7_HavingAfterAggregation ==
  reasoning.valid
    => \A p \in Range(records.products), c \in Range(records.customers) :
         \A category \in {p.category, p.subcategory} :
           LET rows == SalesOfProductToType(p.name, c.type)
               fit == reasoning.product_customer_fit
               shown == {i \in DOMAIN fit :
                           /\ fit[i].product = p.name
                           /\ fit[i].customer_type = c.type
                           /\ fit[i].category = category}
           IN  /\ Len(rows) > 5 <=> shown # {}
               /\ \A i \in shown :
                    /\ fit[i].sales_count = Len(rows)
                    /\ fit[i].revenue = ColumnSum(rows, "net_revenue")

\* a group of 6 completed sales of revenue 1 each is reported, beside a pending
\* sale of the same product to the same customer and a group of one sale
C7_Witness ==
  /\ reasoning.valid
  /\ Len(records.sales) = 8
  /\ Len(reasoning.product_customer_fit) = 2
  /\ \A i \in DOMAIN reasoning.product_customer_fit :
       /\ reasoning.product_customer_fit[i].sales_count = 6
       /\ reasoning.product_customer_fit[i].revenue = 6

\* C8: top_products has min(5, number of products with a completed sale) rows,
\* each the total of a different product, in non-increasing order of revenue,
\* and no product left out has a higher total than a product returned.
C8_TopProducts ==
  insights.valid
    => LET top == insights.top_products
           sold == {p \in Range(records.products) : SalesOfProduct(p.name) # <<>>}
           total(p) == ColumnSum(SalesOfProduct(p.name), "net_revenue")
       IN  /\ Len(top) = IF Cardinality(sold) < 5 THEN Cardinality(sold) ELSE 5
           /\ \A i \in DOMAIN top :
                \E p \in sold : p.name = top[i].product /\ total(p) = top[i].revenue
           /\ \A i, j \in DOMAIN top :
                i < j => /\ top[i].product # top[j].product
                         /\ top[i].revenue >= top[j].revenue
           /\ \A p \in sold :
                (\A i \in DOMAIN top : top[i].product # p.name)
                  => \A i \in DOMAIN top : total(p) <= top[i].revenue

\* of six products sold, the sixth is returned first and another is left out
C8_Witness ==
  /\ insights.valid
  /\ Len(records.products) = 6
  /\ Len(insights.top_products) = 5
  /\ insights.top_products[1].product = W("N6")
  /\ insights.top_products[5].revenue = 1

\* load_sales_data on a new builder, for the tables given
LoadSalesData(products, customers, sales_reps, df) ==
  AddSales(AddSalesReps(AddCustomers(AddProducts(
    AddCategories(AddIndustries(AddRegions(NewBuilder))),
    products), customers), sales_reps), df)

\* a table with its rows in another order
Reordered(rows, order) == [i \in DOMAIN rows |-> rows[order[i]]]

\* C11: the store of every completed load has exactly the triples that a load
\* on a new builder gives for the same tables with the transaction rows in any
\* other order and the entity rows in reverse order.
C11_LoadDeterminism ==
  (pc \in {"populated", "loaded"} /\ step = 7)
    => LET entities == LoadSalesData(Reverse(records.products),
                                      Reverse(records.customers),
                                      Reverse(records.sales_reps), <<>>)
       IN  \A order \in Orders(Len(records.sales)) :
             Range(graph) = Range(AddSales(entities, Reordered(records.sales, order)))

\* a load of two different rows that share a sale_id has completed
C11_Witness ==
  /\ pc = "loaded"
  /\ step = 7
  /\ Len(records.sales) = 2
  /\ records.sales[1].sale_id = records.sales[2].sale_id
  /\ records.sales[1] # records.sales[2]

\* C12: a second thread that is in get_semantic_context with a builder it read
\* from self.kg never holds one whose load has not finished.
C12_ReaderSeesCompleteStore ==
  reader = "reading" => (pc = "loaded" /\ Range(graph) = Range(CompleteLoad))

\* C13: every step that is not the construction of a new builder leaves every
\* triple of the store in the store.
C13_AppendOnly ==
  [][(pc' = "loading" /\ step' = 0 /\ loads' = 1)
       \/ Range(graph) \subseteq Range(graph')]_vars

\* one builder has been loaded twice and then queried by both kinds of query
C13_Witness ==
  /\ loads = 2
  /\ pc = "loaded"
  /\ insights.valid
  /\ reasoning.valid
  /\ result.valid
  /\ records.sales # <<>>

\* C14: a step in which get_insights, get_reasoning_insights or query_sparql
\* returns leaves the store as it was, and the same queries run on the store
\* after the step give the results just returned.
C14_QueriesReadOnly ==
  [][(insights'.valid /\ insights' # insights
        => /\ graph' = graph
           /\ insights' = [valid |-> TRUE] @@ GetInsights(graph'))
     /\ (reasoning'.valid /\ reasoning' # reasoning
        => /\ graph' = graph
           /\ reasoning' = [valid |-> TRUE] @@ GetReasoningInsights(graph'))
     /\ (result'.valid /\ result' # result
        => /\ graph' = graph
           /\ result'.pairs = JoinSoldToLocatedIn(graph'))]_vars

\* all three kinds of query have returned on a store with a completed sale
C14_Witness ==
  /\ insights.valid
  /\ reasoning.valid
  /\ result.valid
  /\ loads = 1
  /\ insights.top_products # <<>>
  /\ result.pairs # {}

\* C15: after a load, the class of every rdf:type triple that the loader added
\* to the ontology's triples is declared: (class, rdf:type, owl:Class) is in
\* the store.
C15_TypedByDeclaredClass ==
  (pc \in {"populated", "loaded"} /\ step = 7)
    => \A t \in Range(graph) \ Range(ontology) :
         t[2] = RdfType => <<t[3], RdfType, OWL("Class")>> \in Range(graph)

\* C16: every identifier that the loader types has exactly one rdf:type class,
\* whatever rows share an id and however many loads went into the store.
C16_OneTypePerEntity ==
  \A t, u \in Range(graph) \ Range(ontology) :
    (t[2] = RdfType /\ u[2] = RdfType /\ t[1] = u[1]) => t[3] = u[3]

\* C18: after a load, every customer row of type Enterprise, SMB or Mid-Market
\* has given its node the one class assertion of its type and no assertion of
\* the base class, and the pattern (?x rdf:type Customer) has no solution.
C18_SubclassByType ==
  (pc \in {"populated", "loaded"} /\ step = 7)
    => /\ \A c \in Range(records.customers) :
            c.type \in {W("Enterprise"), W("SMB"), W("Mid-Market")}
              => LET class == CASE c.type = W("Enterprise") -> P("EnterpriseCustomer")
                                [] c.type = W("SMB") -> P("SMBCustomer")
                                [] c.type = W("Mid-Market") -> P("MidMarketCustomer")
                 IN  /\ SelectSeq(CustomerTriples(c), LAMBDA t : t[2] = RdfType)
                          = << <<SALES(c.id), RdfType, class>> >>
                     /\ <<SALES(c.id), RdfType, class>> \in Range(graph)
                     /\ <<SALES(c.id), RdfType, P("Customer")>> \notin Range(graph)
       /\ EvalBGP(graph, << <<Var("x"), RdfType, P("Customer")>> >>) = <<>>

\* a Mid-Market customer and an Enterprise customer have been loaded
C18_Witness ==
  /\ pc = "loaded"
  /\ step = 7
  /\ \E c \in Range(records.customers) : c.type = W("Mid-Market")
  /\ \E c \in Range(records.customers) : c.type = W("Enterprise")

\* the names of the nodes of a taxonomy class: those with the rdf:type and a
\* name literal
TaxonomyNames(class, name) ==
  {StrVal(t[3]) : t \in {u \in Range(graph) :
     u[2] = P(name) /\ <<u[1], RdfType, P(class)>> \in Range(graph)}}

\* C17: after a load, the named Region, Industry and Category nodes are those
\* of the distinct values in the entity tables, and every region that a
\* locatedIn or operatesIn edge refers to is a named Region node.
C17_TaxonomyFollowsData ==
  (pc \in {"populated", "loaded"} /\ step = 7)
    => /\ TaxonomyNames("Region", "regionName")
            = {c.region : c \in Range(records.customers)}
                \cup {r.region : r \in Range(records.sales_reps)}
       /\ TaxonomyNames("Industry", "industryName")
            = {c.industry : c \in Range(records.customers)}
       /\ TaxonomyNames("Category", "categoryName")
            = {p.category : p \in Range(records.products)}
                \cup {p.subcategory : p \in Range(records.products)}
       /\ \A t \in Range(graph) :
            t[2] \in {P("locatedIn"), P("operatesIn")}
              => /\ <<t[3], RdfType, P("Region")>> \in Range(graph)
                 /\ \E u \in Range(graph) : u[1] = t[3] /\ u[2] = P("regionName")

\* C19: after a load of a snapshot whose sale_ids are all different, the Sale
\* nodes are those of the rows, and each has exactly one soldTo, one
\* productSold and one soldBy edge, to the identifiers of its row's
\* customer_id, product_id and sales_rep_id.
C19_ThreeEdgesPerSale ==
  (/\ pc \in {"populated", "loaded"}
   /\ step = 7
   /\ \A i, j \in DOMAIN records.sales :
        records.sales[i].sale_id = records.sales[j].sale_id => i = j)
    => /\ {t[1] : t \in {u \in Range(graph) : u[2] = RdfType /\ u[3] = P("Sale")}}
            = {SALES(row.sale_id) : row \in Range(records.sales)}
       /\ \A row \in Range(records.sales) :
            LET sale == SALES(row.sale_id)
                edges(p) == {t \in Range(graph) : t[1] = sale /\ t[2] = P(p)}
            IN  /\ edges("soldTo") = {<<sale, P("soldTo"), SALES(row.customer_id)>>}
                /\ edges("productSold")
                     = {<<sale, P("productSold"), SALES(row.product_id)>>}
                /\ edges("soldBy") = {<<sale, P("soldBy"), SALES(row.sales_rep_id)>>}

\* two rows with different sale_ids, customers and products have been loaded
C19_Witness ==
  /\ pc = "loaded"
  /\ step = 7
  /\ Len(records.sales) = 2
  /\ records.sales[1].sale_id # records.sales[2].sale_id
  /\ records.sales[1].customer_id # records.sales[2].customer_id
  /\ records.sales[1].product_id # records.sales[2].product_id

----------------------------------------------------------------------------
(* C21: schema declarations are idempotent and a conflicting re-declaration  *)
(* is rejected: a name declared again with another kind, domain, range or  *)
(* description fails instead of adding the conflicting triples, so the     *)
(* schema never holds two kinds, two domains, two ranges or two            *)
(* descriptions of one name.                                               *)
C21_ConflictRejected ==
  /\ ontology # <<>> =>
       /\ DefineClasses(ontology) = ontology
       /\ DefineProperties(ontology) = ontology
       /\ DefineReasoningRules(ontology) = ontology
  /\ \A t, u \in Range(ontology) :
       (/\ t[1] = u[1]
        /\ t[2] = u[2]
        /\ t[2] \in {RdfType, RDFS("domain"), RDFS("range"), RDFS("comment")})
         => t[3] = u[3]

----------------------------------------------------------------------------
(* C22: the store always contains the schema: right after the builder's    *)
(* construction the store's triple set is the schema's, and in every later *)
(* state (after any loads and queries) every schema triple is in the store *)
C22_StoreContainsSchema ==
  pc # "start" =>
    /\ Range(ontology) = Range(SalesOntology)
    /\ Range(ontology) \subseteq Range(graph)
    /\ (pc = "loading" /\ step = 0 /\ loads = 1) => Range(graph) = Range(ontology)

\* a store loaded twice and queried
C22_Witness ==
  /\ pc = "loaded"
  /\ loads = 2
  /\ result.valid
  /\ insights.valid
  /\ Size(graph) > Size(ontology)

----------------------------------------------------------------------------
(* C23: the schema is immutable after construction: no operation of the    *)
(* builder (construction, load_sales_data, queries, save) and no call of   *)
(* get_ontology_summary or save on the SalesOntology adds a triple to or   *)
(* removes one from the SalesOntology's graph; the store holds a copy.     *)
C23_SchemaImmutable ==
  [][ontology # <<>> => ontology' = ontology]_vars

\* a summary was taken, the store was loaded over the schema's copy and queried
C23_Witness ==
  /\ summary.valid
  /\ summary.total_triples = Size(ontology)
  /\ pc = "loaded"
  /\ insights.valid
  /\ Size(graph) > Size(ontology)

----------------------------------------------------------------------------
(* C24: causal properties carry no instance data: in every reachable state *)
(* of the store no triple has the predicate causedBy, influences,          *)
(* correlatesWith or indicatesPreference, and no node has a reasoning      *)
(* concept (HighValueCustomer, FrequentBuyer, ...) as its rdf:type.        *)
C24_NoCausalInstanceData ==
  \A t \in Range(graph) :
    /\ \A i \in DOMAIN CausalProperties : t[2] # SALES(W(CausalProperties[i][1]))
    /\ t[2] = RdfType =>
         \A i \in DOMAIN ReasoningConcepts : t[3] # SALES(W(ReasoningConcepts[i][1]))

\* a loaded store with an Enterprise customer, the schema's causal
\* declarations in it
C24_Witness ==
  /\ pc = "loaded"
  /\ \E c \in Range(records.customers) :
       /\ c.type = W("Enterprise")
       /\ <<SALES(c.id), RdfType, SALES(W("EnterpriseCustomer"))>> \in Range(graph)
  /\ <<SALES(W("causedBy")), RdfType, OWL("ObjectProperty")>> \in Range(graph)
  /\ <<SALES(W("HighValueCustomer")), RdfType, OWL("Class")>> \in Range(graph)

----------------------------------------------------------------------------
(* C25: subjects and predicates are never literals: in every reachable     *)
(* state of the schema graph and of the store, each triple's subject and   *)
(* predicate are identifiers; the literals made from record fields (names, *)
(* ids, prices, dates, statuses) are in object position only.              *)
C25_NoLiteralSubjectOrPredicate ==
  \A t \in Range(ontology) \cup Range(graph) :
    /\ ~IsLiteral(t[1])
    /\ ~IsLiteral(t[2])
    /\ t[1][1] = "uri"
    /\ t[2][1] = "uri"

\* a loaded store that holds literals of each kind made from record fields
C25_Witness ==
  /\ pc = "loaded"
  /\ \E r \in Range(records.sales_reps) :
       <<SALES(r.id), SALES(W("repId")), Lit(r.id)>> \in Range(graph)
  /\ \E s \in Range(records.sales) :
       /\ <<SALES(s.sale_id), SALES(W("saleDate")), DateLit(s.date)>> \in Range(graph)
       /\ <<SALES(s.sale_id), SALES(W("netRevenue")), NumLit(s.net_revenue, "decimal")>>
            \in Range(graph)
       /\ <<SALES(s.sale_id), SALES(W("status")), Lit(s.status)>> \in Range(graph)

----------------------------------------------------------------------------
(* C26: only completed sales are counted: for every records snapshot, a    *)
(* transaction whose status is not Completed contributes to no count, sum  *)
(* or average of any row of get_insights or get_reasoning_insights: the    *)
(* catalogue's results are those of the snapshot without that transaction, *)
(* and those of the snapshot with its revenue and quantity changed.        *)

\* the table without its i-th row
WithoutRow(rows, i) == SubSeq(rows, 1, i - 1) \o SubSeq(rows, i + 1, Len(rows))

\* the table with the revenue and the quantity of its i-th row changed
WithRowChanged(rows, i) ==
  [rows EXCEPT ![i] = [@ EXCEPT !.net_revenue = @ + 1, !.gross_revenue = @ + 1,
                                !.quantity = @ + 1]]

C26_OnlyCompletedCounted ==
  (pc = "loaded" /\ step = 7) =>
    \A i \in DOMAIN records.sales :
      records.sales[i].status # W("Completed") =>
        \A df \in {WithoutRow(records.sales, i), WithRowChanged(records.sales, i)} :
          LET other == LoadSalesData(records.products, records.customers,
                                     records.sales_reps, df)
          IN  /\ GetInsights(graph) = GetInsights(other)
              /\ GetReasoningInsights(graph) = GetReasoningInsights(other)

----------------------------------------------------------------------------
(* C27: each completed sale is counted once in the product-customer        *)
(* affinity: before the HAVING threshold and the 10-row cap, every         *)
(* completed sale is in exactly one (productName, customerType, category)  *)
(* group, so the groups' counts sum to the number of completed sales and   *)
(* their revenues to the total completed net revenue.                      *)
C27_EachSaleOnceInAffinity ==
  (pc = "loaded" /\ step = 7) =>
    LET groups == ProductCustomerFitGroups(graph) IN
    /\ ColumnSum(groups, "salesCount") = Len(CompletedSales)
    /\ ColumnSum(groups, "totalRevenue") = ColumnSum(CompletedSales, "net_revenue")

----------------------------------------------------------------------------
(* C28: every transaction row is counted exactly once in revenue by        *)
(* region: for every snapshot whose transactions are all of customers      *)
(* located in one of the loader's regions (sale_ids may repeat), the sales *)
(* counts of the revenue_by_region rows sum to the number of Completed     *)
(* transaction rows and their revenues to those rows' total net revenue.   *)
C28_EachRowOnceInRevenueByRegion ==
  (/\ insights.valid
   /\ step = 7
   /\ \A r \in Range(records.sales) :
        \E c \in Range(records.customers) :
          c.id = r.customer_id /\ c.region \in Range(RegionNames))
    => /\ ColumnSum(insights.revenue_by_region, "sales") = Len(CompletedSales)
       /\ ColumnSum(insights.revenue_by_region, "revenue")
            = ColumnSum(CompletedSales, "net_revenue")

----------------------------------------------------------------------------
(* C29: identifier derivation is injective across the graph: distinct      *)
(* entities of the snapshot (rows of different entity tables,              *)
(* transactions, and region, industry, category and subcategory names)     *)
(* always get distinct identifiers, so no two entities are one node; this  *)
(* includes keys that differ by a blank for an underscore and an entity id *)
(* that is a taxonomy name.                                                *)

\* the taxonomy values the loader declares with a naming predicate:
\* <<kind, name, identifier>>
Declared(kind, triples, name) ==
  {<<kind, StrVal(t[3]), t[1]>> : t \in {u \in Range(triples) : u[2] = SALES(W(name))}}

\* the entities of the snapshot with the identifier the loader derives for
\* each: <<kind, key, identifier>>
Entities ==
  {<<"product", p.id, ProductTriples(p)[1][1]>> : p \in Range(records.products)}
  \cup {<<"category", p.category, ProductTriples(p)[5][3]>> : p \in Range(records.products)}
  \cup {<<"category", p.subcategory, ProductTriples(p)[6][3]>> : p \in Range(records.products)}
  \cup {<<"customer", c.id, CustomerTriples(c)[1][1]>> : c \in Range(records.customers)}
  \cup {<<"region", c.region, CustomerTriples(c)[5][3]>> : c \in Range(records.customers)}
  \cup {<<"industry", c.industry, CustomerTriples(c)[6][3]>> : c \in Range(records.customers)}
  \cup {<<"rep", r.id, RepTriples(r)[1][1]>> : r \in Range(records.sales_reps)}
  \cup {<<"region", r.region, RepTriples(r)[5][3]>> : r \in Range(records.sales_reps)}
  \cup {<<"sale", s.sale_id, SaleTriples(s)[1][1]>> : s \in Range(records.sales)}
  \cup Declared("region", AddRegions(<<>>), "regionName")
  \cup Declared("industry", AddIndustries(<<>>), "industryName")
  \cup Declared("category", AddCategories(<<>>), "categoryName")

C29_IdentifiersInjective ==
  (pc = "loaded" /\ step = 7) =>
    \A e1, e2 \in Entities :
      e1[3] = e2[3] => (e1[1] = e2[1] /\ e1[2] = e2[2])

----------------------------------------------------------------------------
(* C30: fallback typing of unrecognised discriminants: a customer row      *)
(* whose type is none of Enterprise, SMB, Mid-Market is still loaded and   *)
(* is typed MidMarketCustomer, and a product row whose category is not     *)
(* Electronics is typed FurnitureProduct; the load does not fail for it    *)
(* and the customerType literal keeps the row's value.                     *)
C30_FallbackTyping ==
  /\ (pc \in {"raised", "failed"}) => records.bad # NoBad
  /\ (pc = "loaded" /\ step = 7) =>
       /\ \A c \in Range(records.customers) :
            c.type \notin {W("Enterprise"), W("SMB"), W("Mid-Market")} =>
              /\ <<SALES(c.id), RdfType, SALES(W("MidMarketCustomer"))>> \in Range(graph)
              /\ <<SALES(c.id), SALES(W("customerType")), Lit(c.type)>> \in Range(graph)
              /\ <<SALES(c.id), SALES(W("customerId")), Lit(c.id)>> \in Range(graph)
       /\ \A p \in Range(records.products) :
            p.category # W("Electronics") =>
              /\ <<SALES(p.id), RdfType, SALES(W("FurnitureProduct"))>> \in Range(graph)
              /\ <<SALES(p.id), SALES(W("productId")), Lit(p.id)>> \in Range(graph)

\* a loaded store of a snapshot with a Startup customer and a Software product
C30_Witness ==
  /\ pc = "loaded"
  /\ step = 7
  /\ \E c \in Range(records.customers) : c.type = W("Startup")
  /\ \E p \in Range(records.products) : p.category = W("Software")
  /\ <<SALES(W("C6")), RdfType, SALES(W("MidMarketCustomer"))>> \in Range(graph)
  /\ <<SALES(W("C6")), SALES(W("customerType")), Lit(W("Startup"))>> \in Range(graph)
  /\ <<SALES(W("P7")), RdfType, SALES(W("FurnitureProduct"))>> \in Range(graph)

====
